---- MODULE Spec2Model ----
(***************************************************************************)
(* Model of SekaiSongCrawl (src/main.py): the reference loader of main(),  *)
(* the scheduling of one fetch_music coroutine per track, the per-variant  *)
(* skip / fetch / write / tag loop, the two progress counters and the      *)
(* output directory, over consecutive runs of the script.                  *)
(*                                                                         *)
(* Strings are sequences of one-character strings, so that joining and     *)
(* filename sanitisation are computed as the code computes them.           *)
(* One action is one resumption of a coroutine by the asyncio event loop:  *)
(* the code between two awaits runs without interleaving.                  *)
(* Spec is one run of the script on an empty output directory; SpecRuns is *)
(* any number of runs, each of which may be cut short, on the directory    *)
(* the earlier runs left.                                                  *)
(* SpecFair is one run in which no request fails for ever, against a       *)
(* guest-character dataset that may be empty; SpecLoaderFair is one run in *)
(* which only the requests of the loader are sure to be answered;          *)
(* SpecAuthors is one run on one track whose author fields take every      *)
(* value.                                                                  *)
(***************************************************************************)
EXTENDS Integers, Sequences, FiniteSets, TLC

\* ------------------------------------------------------------- bounds
MaxTracks == 2
MaxVocals == 2
MaxFailures == 2

\* ------------------------------------------------------------ strings
Dash == <<"-">>
Empty == <<>>
Sep == <<" ", "-", " ">>
Comma == <<",", " ">>
Mp3Ext == <<".", "m", "p", "3">>
DownloadDir == <<".", "/", "D", "o", "w", "n", "l", "o", "a", "d">>
AlbumPrefix == <<"P", "r", "o", "j", "e", "c", "t", " ", "S", "e", "k", "a", "i", " ",
                 "S", "o", "u", "n", "d", "t", "r", "a", "c", "k", " ", "-", " ">>

\* the characters replaced in a file name
Forbidden == {"?", "*", ":", "<", ">", "|", "/", "\\"}

RECURSIVE Join(_, _)
\* sep.join(parts)
Join(parts, sep) ==
    IF Len(parts) = 0 THEN <<>>
    ELSE IF Len(parts) = 1 THEN parts[1]
    ELSE parts[1] \o sep \o Join(Tail(parts), sep)

\* for repl in "?*:<>|/\\": name = name.replace(repl, "_")
Sanitize(name) ==
    [i \in 1..Len(name) |-> IF name[i] \in Forbidden THEN "_" ELSE name[i]]

RECURSIVE DictKeys(_)
\* the keys of a dict literal built from a list of keys: first occurrences, in order
DictKeys(keys) ==
    IF Len(keys) = 0 THEN <<>>
    ELSE LET front == DictKeys(SubSeq(keys, 1, Len(keys) - 1))
             last == keys[Len(keys)]
         IN IF \E i \in 1..Len(front) : front[i] = last THEN front
            ELSE Append(front, last)

\* i for i in {lyricist: 0, composer: 0, arranger: 0} if i and i != "-"
AuthorList(music) ==
    SelectSeq(DictKeys(<<music.lyricist, music.composer, music.arranger>>),
              LAMBDA a : a # Empty /\ a # Dash)

\* ", ".join(...) of the author list
AuthorsRepr(music) == Join(AuthorList(music), Comma)

\* ------------------------------------------------- the remote datasets
\* the title of track i: the titles differ only in a character that
\* Sanitize replaces, or is
Title(i) == <<"A", <<"/", "_", "?", ":">>[((i - 1) % 4) + 1], "B">>
Lyricist == <<"X">>
Composer == <<"X">>
Arranger == Dash
VocalType == <<"s", "e">>
GameRef(n) == [characterType |-> "game_character", characterId |-> n]
OutsideRef(n) == [characterType |-> "outside_character", characterId |-> n]
\* character id 2 is in neither character dataset
CharacterLists == {<<>>, <<GameRef(1)>>, <<OutsideRef(2)>>}

\* gameCharacters.json and outsideCharacters.json, keyed by id
ServerGameCharacters ==
    [i \in {1} |-> [id |-> 1, firstName |-> <<"H">>, givenName |-> <<"M">>]]
ServerOutsideCharacters ==
    [i \in {1} |-> [id |-> 1, name |-> <<"G">>]]
\* an outsideCharacters.json that lists no character
NoOutsideCharacters == [i \in {} |-> i]

\* musics.json: n tracks with ids 1..n; the asset bundle is named after the id
TrackLists ==
    {[i \in 1..n |->
        [id |-> i, title |-> Title(i), lyricist |-> Lyricist,
         composer |-> Composer, arranger |-> Arranger, assetBundleName |-> i]] :
     n \in 0..MaxTracks}

\* musicVocals.json: m variants with ids 1..m, each naming a track id in
\* 1..MaxTracks, the variants of a track listed together; the asset bundle is
\* named after the id
VocalLists ==
    UNION {{[i \in 1..m |->
               [id |-> i, musicId |-> mid[i], musicVocalType |-> VocalType,
                characters |-> cs[i], assetBundleName |-> i]] :
              mid \in {f \in [1..m -> 1..MaxTracks] :
                          \A i, j \in 1..m : i < j => f[i] <= f[j]},
              cs \in [1..m -> CharacterLists]} :
           m \in 0..MaxVocals}

\* the values of an author field: the sentinel, the empty string, two names
AuthorValues == {Dash, Empty, <<"X">>, <<"Y">>}

\* musics.json with one track, its three author fields taking every value
AuthorTrackLists ==
    {<<[id |-> 1, title |-> Title(1), lyricist |-> l, composer |-> c,
        arranger |-> a, assetBundleName |-> 1]>> :
     l \in AuthorValues, c \in AuthorValues, a \in AuthorValues}

\* musicVocals.json with one variant of that track, sung by no, one or two
\* characters of the character datasets
AuthorVocalLists ==
    {<<[id |-> 1, musicId |-> 1, musicVocalType |-> VocalType,
        characters |-> cs, assetBundleName |-> 1]>> :
     cs \in {<<>>, <<GameRef(1)>>, <<OutsideRef(1), GameRef(1)>>}}

VARIABLES
    server,              \* the remote datasets (musics, vocals, outside), unchanged
    fs,                  \* ./Download: path -> file, kept from run to run
    runState,            \* "loading", "running", "success", "failed"
    loaderPc,            \* the request main() awaits in the loader loop, or "done"
    musics,              \* global musics
    vocal_map,           \* global vocal_map
    game_characters,     \* global game_characters
    outside_characters,  \* global outside_characters
    progress,            \* the totals and completed counts of the two progress tasks
    tasks,               \* the fetch_music coroutines gathered by main()
    failures,            \* requests of this run that raised
    prevSuccess          \* the previous run ended by main() returning

vars == <<server, fs, runState, loaderPc, musics, vocal_map, game_characters,
          outside_characters, progress, tasks, failures,
          prevSuccess>>


\* ------------------------------------------------------------ catalog
NoMap == [k \in {} |-> k]

\* vocal_map.setdefault(v.musicId, []).append(v)
SetDefaultAppend(map, v) ==
    [k \in DOMAIN map \cup {v.musicId} |->
        IF k = v.musicId
        THEN Append(IF k \in DOMAIN map THEN map[k] ELSE <<>>, v)
        ELSE map[k]]

RECURSIVE AddVocals(_, _)
\* for v in map(VocalInfo.parse_obj, ...): the statement above, for every variant
AddVocals(map, vs) ==
    IF Len(vs) = 0 THEN map
    ELSE AddVocals(SetDefaultAppend(map, Head(vs)), Tail(vs))

RECURSIVE SumLen(_, _)
SumLen(map, keys) ==
    IF keys = {} THEN 0
    ELSE LET k == CHOOSE x \in keys : TRUE
         IN Len(map[k]) + SumLen(map, keys \ {k})

\* sum(len(v) for v in vocal_map.values())
VariantTotal(map) == SumLen(map, DOMAIN map)

\* total=len(musics)
TrackTotal(ms) == Len(ms)

\* ------------------------------------------------------- file naming
\* GameCharacter.full_name
full_name(c) == c.firstName \o c.givenName

\* every game_characters[...] / outside_characters[...] lookup finds its key
Resolvable(vocal, gc, oc) ==
    \A i \in 1..Len(vocal.characters) :
        IF vocal.characters[i].characterType = "game_character"
        THEN vocal.characters[i].characterId \in DOMAIN gc
        ELSE vocal.characters[i].characterId \in DOMAIN oc

\* characters_tup
CharactersTup(vocal, gc, oc) ==
    [i \in 1..Len(vocal.characters) |->
        IF vocal.characters[i].characterType = "game_character"
        THEN full_name(gc[vocal.characters[i].characterId])
        ELSE oc[vocal.characters[i].characterId].name]

\* characters_repr
CharactersRepr(tup) ==
    IF Len(tup) > 0 THEN <<"(">> \o Join(tup, Comma) \o <<")">> ELSE <<>>

\* music_file_name
MusicFileName(music, vocal, tup) ==
    Sanitize(AuthorsRepr(music) \o Sep \o music.title \o Sep
             \o vocal.musicVocalType \o CharactersRepr(tup) \o Mp3Ext)

\* oop_path
OopPath(music, vocal, tup) ==
    DownloadDir \o <<"/">> \o vocal.musicVocalType \o <<"/">>
        \o MusicFileName(music, vocal, tup)

\* -------------------------------------------------------------- tags
\* mutant: the authors come before the characters
ArtistsAuthorsFirst(music, tup) == AuthorList(music) \o tup

\* artists
Artists(music, tup) == tup \o AuthorList(music)

\* for t in ["lyricist", "composer", "arranger"]: if (d := getattr(music, t)) != "-"
AuthorTag(key, d) == IF d # Dash THEN {<<key, <<d>>>>} ELSE {}

\* the text frames saved by the first mp3.save()
EasyTags(music, vocal, tup) ==
    {<<"title", <<music.title>>>>}
        \cup AuthorTag("lyricist", music.lyricist)
        \cup AuthorTag("composer", music.composer)
        \cup AuthorTag("arranger", music.arranger)
        \cup {<<"artist", Artists(music, tup)>>,
              <<"performer", tup>>,
              <<"album", <<AlbumPrefix \o vocal.musicVocalType>>>>}

\* a file of the output directory: the audio payload (0: none or truncated,
\* n: the full payload of audio bundle n), the saved text frames, and the
\* front-cover picture (0: none, n: the cover bytes of jacket bundle n)
NoFile == [audio |-> 0, tags |-> {}, apic |-> 0]

\* mutant: the existence check never finds the file
ExistsNever(files, p) == FALSE

Exists(files, p) == p \in DOMAIN files

\* the directory with file p replaced by f
WithFile(files, p, f) ==
    [q \in DOMAIN files \cup {p} |-> IF q = p THEN f ELSE files[q]]


\* ------------------------------------------------- progress callbacks
\* advance(): progress.update(dl_task, advance=1)
advance(prog) == [prog EXCEPT !.trackDone = @ + 1]

\* mutant: an update that is lost when another one was counted before it
AdvanceVariantLost(prog) ==
    [prog EXCEPT !.variantDone = IF @ >= 1 THEN @ ELSE @ + 1]

\* advance_variant(): progress.update(dl_variant_task, advance=1)
advance_variant(prog) == [prog EXCEPT !.variantDone = @ + 1]

\* ------------------------------------------------------ fetch_music
\* What a coroutine has done, in order: "cover" (cover bytes received),
\* "skip" (the path existed; file is the file found), "fetch" (audio
\* received), "open" (file created or truncated), "write" (payload written),
\* "tag1" and "tag2" (first and second mp3.save()), "signal"
\* (on_variant_complete()), "complete" (on_complete()).
Event(kind, i, f) == [ev |-> kind, i |-> i, file |-> f]

\* an event of the variant the task is at
Log(t, kind, f) == [t EXCEPT !.events = Append(@, Event(kind, t.vi, f))]

\* an event of the track as a whole (variant 0)
LogTrack(t, kind) == [t EXCEPT !.events = Append(@, Event(kind, 0, NoFile))]

\* the coroutine object created for one track: nothing has run yet
NewTask(music, vocals) ==
    [music |-> music, vocals |-> vocals, pc |-> "cover", vi |-> 1,
     cover_png |-> 0, error |-> "none", events |-> <<>>]

\* mutant: the skip branch goes on without on_variant_complete()
SkipExistingSilently(st, f) ==
    [task |-> [Log(st.task, "skip", f) EXCEPT !.vi = @ + 1],
     progress |-> st.progress]

\* if oop_path.exists(): ... on_variant_complete(); continue
SkipExisting(st, f) ==
    [task |-> [Log(Log(st.task, "skip", f), "signal", NoFile) EXCEPT !.vi = @ + 1],
     progress |-> advance_variant(st.progress)]

\* print(...Downloaded title); on_complete()
CompleteTrack(st) ==
    [task |-> [LogTrack(st.task, "complete") EXCEPT !.pc = "done"],
     progress |-> advance(st.progress)]

RECURSIVE ProcessVariantsEarly(_, _, _, _)
\* mutant: the loop over the variants stops one variant short
ProcessVariantsEarly(st, files, gc, oc) ==
    LET t == st.task IN
    IF t.vi >= Len(t.vocals) THEN CompleteTrack(st)
    ELSE LET vocal == t.vocals[t.vi] IN
         IF ~Resolvable(vocal, gc, oc)
         THEN [st EXCEPT !.task.pc = "failed", !.task.error = "KeyError"]
         ELSE LET p == OopPath(t.music, vocal, CharactersTup(vocal, gc, oc)) IN
              IF Exists(files, p)
              THEN ProcessVariantsEarly(SkipExisting(st, files[p]), files, gc, oc)
              ELSE [st EXCEPT !.task.pc = "audio"]

RECURSIVE ProcessVariants(_, _, _, _)
\* for vocal in vocals: ..., from variant st.task.vi up to the next await
\* (the audio request of a variant whose path is absent), the KeyError of
\* an unknown character id, or the end of the list
ProcessVariants(st, files, gc, oc) ==
    LET t == st.task IN
    IF t.vi > Len(t.vocals) THEN CompleteTrack(st)
    ELSE LET vocal == t.vocals[t.vi] IN
         IF ~Resolvable(vocal, gc, oc)
         THEN [st EXCEPT !.task.pc = "failed", !.task.error = "KeyError"]
         ELSE LET p == OopPath(t.music, vocal, CharactersTup(vocal, gc, oc)) IN
              IF Exists(files, p)
              THEN ProcessVariants(SkipExisting(st, files[p]), files, gc, oc)
              ELSE [st EXCEPT !.task.pc = "audio"]

\* how the block from open(path, "wb") to the second mp3.save() can end
Outcomes == {"ok", "open_raises", "write_raises", "tag1_raises", "tag2_raises"}

\* mutant: the picture attached is fetched per variant, from the variant's
\* own asset bundle
WriteAndTagVariantCover(t, files, gc, oc, outcome) ==
    LET vocal == t.vocals[t.vi]
        tup == CharactersTup(vocal, gc, oc)
        p == OopPath(t.music, vocal, tup)
        truncated == NoFile
        written == [audio |-> vocal.assetBundleName, tags |-> {}, apic |-> 0]
        tagged == [written EXCEPT !.tags = EasyTags(t.music, vocal, tup)]
        covered == [tagged EXCEPT !.apic = vocal.assetBundleName]
        t0 == Log(t, "open", NoFile)
        t1 == Log(t0, "write", NoFile)
        t2 == Log(t1, "tag1", NoFile)
        t3 == Log(t2, "tag2", NoFile)
        raised(x) == [x EXCEPT !.pc = "failed", !.error = "OSError"]
    IN  CASE outcome = "open_raises" -> [files |-> files, task |-> raised(t)]
          [] outcome = "write_raises" ->
                [files |-> WithFile(files, p, truncated), task |-> raised(t0)]
          [] outcome = "tag1_raises" ->
                [files |-> WithFile(files, p, written), task |-> raised(t1)]
          [] outcome = "tag2_raises" ->
                [files |-> WithFile(files, p, tagged), task |-> raised(t2)]
          [] OTHER -> [files |-> WithFile(files, p, covered), task |-> t3]

\* with open(path, "wb") as f: f.write(dl.content), then the two tagging
\* phases; an exception leaves the file as the last completed step left it
WriteAndTag(t, files, gc, oc, outcome) ==
    LET vocal == t.vocals[t.vi]
        tup == CharactersTup(vocal, gc, oc)
        p == OopPath(t.music, vocal, tup)
        truncated == NoFile
        written == [audio |-> vocal.assetBundleName, tags |-> {}, apic |-> 0]
        tagged == [written EXCEPT !.tags = EasyTags(t.music, vocal, tup)]
        covered == [tagged EXCEPT !.apic = t.cover_png]
        t0 == Log(t, "open", NoFile)
        t1 == Log(t0, "write", NoFile)
        t2 == Log(t1, "tag1", NoFile)
        t3 == Log(t2, "tag2", NoFile)
        raised(x) == [x EXCEPT !.pc = "failed", !.error = "OSError"]
    IN  CASE outcome = "open_raises" -> [files |-> files, task |-> raised(t)]
          [] outcome = "write_raises" ->
                [files |-> WithFile(files, p, truncated), task |-> raised(t0)]
          [] outcome = "tag1_raises" ->
                [files |-> WithFile(files, p, written), task |-> raised(t1)]
          [] outcome = "tag2_raises" ->
                [files |-> WithFile(files, p, tagged), task |-> raised(t2)]
          [] OTHER -> [files |-> WithFile(files, p, covered), task |-> t3]

\* on_variant_complete() after the second save, and on to the next variant
VariantCompleted(st) ==
    [task |-> [Log(st.task, "signal", NoFile) EXCEPT !.vi = @ + 1],
     progress |-> advance_variant(st.progress)]

\* ------------------------------------------------------------- main
\* mutant: only the tracks with more than one variant are scheduled
ScheduledSeveral(ms, map) ==
    {i \in 1..Len(ms) : ms[i].id \in DOMAIN map /\ Len(map[ms[i].id]) > 1}

\* fetch_music(music, vocal_map[music.id], ...) for music in musics if music.id in vocal_map
Scheduled(ms, map) == {i \in 1..Len(ms) : ms[i].id \in DOMAIN map}

\* mutant: the coroutines are awaited one after the other, so that only the
\* first one is started
GatherInTurn(ms, map) ==
    [i \in Scheduled(ms, map) |->
        IF \A j \in Scheduled(ms, map) : i <= j
        THEN NewTask(ms[i], map[ms[i].id])
        ELSE [NewTask(ms[i], map[ms[i].id]) EXCEPT !.pc = "queued"]]

\* asyncio.gather(*(...)): one coroutine per scheduled track
Gather(ms, map) ==
    [i \in Scheduled(ms, map) |-> NewTask(ms[i], map[ms[i].id])]

\* progress.add_task(..., total=...), twice
NewProgress(ms, map) ==
    [trackTotal |-> TrackTotal(ms), variantTotal |-> VariantTotal(map),
     trackDone |-> 0, variantDone |-> 0]

NoProgress == [trackTotal |-> 0, variantTotal |-> 0, trackDone |-> 0, variantDone |-> 0]
NoTasks == [i \in {} |-> i]

\* the module-level state of a fresh process (lines 83-87), about to send the
\* first request of the loader
Fresh ==
    /\ runState = "loading"
    /\ loaderPc = "musics"
    /\ musics = <<>>
    /\ vocal_map = NoMap
    /\ game_characters = NoMap
    /\ outside_characters = NoMap
    /\ progress = NoProgress
    /\ tasks = NoTasks
    /\ failures = 0

Init ==
    /\ server \in {[musics |-> ms, vocals |-> vs, outside |-> ServerOutsideCharacters] :
                        ms \in TrackLists, vs \in VocalLists}
    /\ fs = NoMap
    /\ prevSuccess = FALSE
    /\ Fresh

\* musics = list(map(MusicInfo.parse_obj, (await c.get(...)).json()))
FetchMusics ==
    /\ runState = "loading" /\ loaderPc = "musics"
    /\ musics' = server.musics
    /\ loaderPc' = "vocals"
    /\ UNCHANGED <<server, fs, runState, vocal_map, game_characters,
                   outside_characters, progress, tasks, failures,
                   prevSuccess>>

\* for v in map(VocalInfo.parse_obj, ...): vocal_map.setdefault(v.musicId, []).append(v)
FetchVocals ==
    /\ runState = "loading" /\ loaderPc = "vocals"
    /\ vocal_map' = AddVocals(vocal_map, server.vocals)
    /\ loaderPc' = "game"
    /\ UNCHANGED <<server, fs, runState, musics, game_characters,
                   outside_characters, progress, tasks, failures,
                   prevSuccess>>

\* mutant: the coroutines are created and started as soon as the game
\* characters are loaded, before the guest characters are
FetchGameCharactersThenStart ==
    /\ runState = "loading" /\ loaderPc = "game"
    /\ game_characters' = ServerGameCharacters
    /\ loaderPc' = "outside"
    /\ tasks' = Gather(musics, vocal_map)
    /\ UNCHANGED <<server, fs, runState, musics, vocal_map,
                   outside_characters, progress, failures, prevSuccess>>

\* game_characters = {e.id: e for e in ...}
FetchGameCharacters ==
    /\ runState = "loading" /\ loaderPc = "game"
    /\ game_characters' = ServerGameCharacters
    /\ loaderPc' = "outside"
    /\ UNCHANGED <<server, fs, runState, musics, vocal_map,
                   outside_characters, progress, tasks, failures,
                   prevSuccess>>

\* outside_characters = {e.id: e for e in ...}; the loop test; and, when the
\* loop ends, the two add_task calls and the gather, which all run before the
\* next await
FetchOutsideCharacters ==
    /\ runState = "loading" /\ loaderPc = "outside"
    /\ outside_characters' = server.outside
    /\ IF DOMAIN outside_characters' # {}
       THEN /\ loaderPc' = "done"
            /\ runState' = "running"
            /\ progress' = NewProgress(musics, vocal_map)
            /\ tasks' = Gather(musics, vocal_map)
       ELSE /\ loaderPc' = "musics"
            /\ UNCHANGED <<runState, progress, tasks>>
    /\ UNCHANGED <<server, fs, musics, vocal_map, game_characters,
                   failures, prevSuccess>>

\* mutant: the loop tests musics instead of outside_characters, so that a
\* pass that loaded the tracks and then failed ends the loop
LoadFailsTestsMusics ==
    /\ runState = "loading" /\ loaderPc \in {"musics", "vocals", "game", "outside"}
    /\ failures < MaxFailures
    /\ failures' = failures + 1
    /\ IF Len(musics) > 0
       THEN /\ loaderPc' = "done"
            /\ runState' = "running"
            /\ progress' = NewProgress(musics, vocal_map)
            /\ tasks' = Gather(musics, vocal_map)
       ELSE /\ loaderPc' = "musics"
            /\ UNCHANGED <<runState, progress, tasks>>
    /\ UNCHANGED <<server, fs, musics, vocal_map, game_characters,
                   outside_characters, prevSuccess>>

\* with contextlib.suppress(Exception): a request of the loader raises, and
\* the loop starts over from the first request
LoadFails ==
    /\ runState = "loading" /\ loaderPc \in {"musics", "vocals", "game", "outside"}
    /\ failures < MaxFailures
    /\ failures' = failures + 1
    /\ loaderPc' = "musics"
    /\ UNCHANGED <<server, fs, runState, musics, vocal_map, game_characters,
                   outside_characters, progress, tasks, prevSuccess>>

\* the state after a step of task w that ended in st, the files being files
TaskStep(w, st, files) ==
    /\ tasks' = [tasks EXCEPT ![w] = st.task]
    /\ progress' = st.progress
    /\ fs' = files
    /\ UNCHANGED <<server, runState, loaderPc, musics, vocal_map,
                   game_characters, outside_characters, prevSuccess>>

\* mutant: the exception of the cover request is not suppressed
CoverFetchPropagates(w) ==
    /\ runState = "running" /\ tasks[w].pc = "cover"
    /\ failures < MaxFailures
    /\ failures' = failures + 1
    /\ tasks' = [tasks EXCEPT ![w].pc = "failed", ![w].error = "HTTPError"]
    /\ UNCHANGED <<server, fs, runState, loaderPc, musics, vocal_map,
                   game_characters, outside_characters, progress, prevSuccess>>

\* with contextlib.suppress(Exception): the cover request raises; the while
\* loop issues it again
CoverFetchFails(w) ==
    /\ runState = "running" /\ tasks[w].pc = "cover"
    /\ failures < MaxFailures
    /\ failures' = failures + 1
    /\ UNCHANGED <<server, fs, runState, loaderPc, musics, vocal_map,
                   game_characters, outside_characters, progress, tasks,
                   prevSuccess>>

\* cover_png = (await client.get(...)).content, then the variants up to the
\* next await
CoverFetched(w) ==
    /\ runState = "running" /\ tasks[w].pc = "cover"
    /\ LET t == LogTrack([tasks[w] EXCEPT !.cover_png = tasks[w].music.assetBundleName],
                         "cover")
       IN TaskStep(w, ProcessVariants([task |-> t, progress |-> progress], fs,
                                      game_characters, outside_characters), fs)
    /\ UNCHANGED failures

\* except Exception as e: print(...): the audio request raises; the while
\* loop issues it again
AudioFetchFails(w) ==
    /\ runState = "running" /\ tasks[w].pc = "audio"
    /\ failures < MaxFailures
    /\ failures' = failures + 1
    /\ UNCHANGED <<server, fs, runState, loaderPc, musics, vocal_map,
                   game_characters, outside_characters, progress, tasks,
                   prevSuccess>>

\* dl = await client.get(...), the write, the two tagging phases,
\* on_variant_complete(), then the variants up to the next await
AudioFetched(w) ==
    /\ runState = "running" /\ tasks[w].pc = "audio"
    /\ \E outcome \in Outcomes :
         LET r == WriteAndTag(Log(tasks[w], "fetch", NoFile), fs, game_characters,
                              outside_characters, outcome)
         IN IF r.task.pc = "failed"
            THEN TaskStep(w, [task |-> r.task, progress |-> progress], r.files)
            ELSE TaskStep(w, ProcessVariants(
                                VariantCompleted([task |-> r.task, progress |-> progress]),
                                r.files, game_characters, outside_characters),
                          r.files)
    /\ UNCHANGED failures

\* mutant: gather returns the exceptions as results instead of raising
GatherReturnsExceptions ==
    /\ runState = "running"
    /\ \A w \in DOMAIN tasks : tasks[w].pc \in {"done", "failed"}
    /\ runState' = "success"
    /\ UNCHANGED <<server, fs, loaderPc, musics, vocal_map, game_characters,
                   outside_characters, progress, tasks, failures,
                   prevSuccess>>

\* mutant: main() is resumed only when there is a returned coroutine for
\* every loaded track, scheduled or not
GatherWaitsForAll ==
    /\ runState = "running"
    /\ \A w \in DOMAIN tasks : tasks[w].pc = "done"
    /\ Cardinality(DOMAIN tasks) = Len(musics)
    /\ runState' = "success"
    /\ UNCHANGED <<server, fs, loaderPc, musics, vocal_map, game_characters,
                   outside_characters, progress, tasks, failures,
                   prevSuccess>>

\* await asyncio.gather(...) returns: every coroutine has returned
GatherReturns ==
    /\ runState = "running"
    /\ \A w \in DOMAIN tasks : tasks[w].pc = "done"
    /\ runState' = "success"
    /\ UNCHANGED <<server, fs, loaderPc, musics, vocal_map, game_characters,
                   outside_characters, progress, tasks, failures,
                   prevSuccess>>

\* await asyncio.gather(...) raises the exception of a coroutine; main() and
\* asyncio.run() raise it, and the other coroutines are cancelled
GatherRaises ==
    /\ runState = "running"
    /\ \E w \in DOMAIN tasks : tasks[w].pc = "failed"
    /\ runState' = "failed"
    /\ UNCHANGED <<server, fs, loaderPc, musics, vocal_map, game_characters,
                   outside_characters, progress, tasks, failures,
                   prevSuccess>>

\* the process has ended, by itself or interrupted while it awaits
\* (KeyboardInterrupt, kill), and the script is started again:
\* asyncio.run(main()) in a new process, on the output directory left behind
NextRun ==
    /\ prevSuccess' = (runState = "success")
    /\ runState' = "loading"
    /\ loaderPc' = "musics"
    /\ musics' = <<>>
    /\ vocal_map' = NoMap
    /\ game_characters' = NoMap
    /\ outside_characters' = NoMap
    /\ progress' = NoProgress
    /\ tasks' = NoTasks
    /\ failures' = 0
    /\ UNCHANGED <<server, fs>>

Next ==
    \/ FetchMusics
    \/ FetchVocals
    \/ FetchGameCharacters
    \/ FetchOutsideCharacters
    \/ LoadFails
    \/ \E w \in DOMAIN tasks : CoverFetchFails(w)
    \/ \E w \in DOMAIN tasks : CoverFetched(w)
    \/ \E w \in DOMAIN tasks : AudioFetchFails(w)
    \/ \E w \in DOMAIN tasks : AudioFetched(w)
    \/ GatherReturns
    \/ GatherRaises

\* one run of the script, on an empty output directory, against any datasets
Spec == Init /\ [][Next]_vars

\* datasets in which every character reference names a loaded character
Consistent(vs) ==
    \A i \in 1..Len(vs) :
        Resolvable(vs[i], ServerGameCharacters, server.outside)

InitRuns == Init /\ Consistent(server.vocals)

NextRuns == Next \/ NextRun

\* consecutive runs of the script on the same output directory, against
\* datasets that do not change
SpecRuns == InitRuns /\ [][NextRuns]_vars

\* one run against any datasets, the guest-character dataset possibly empty.
\* With an empty guest dataset the loader loop never ends and every pass
\* appends the variants to vocal_map again; the variant dataset is empty in
\* that case, which keeps the mapping, and the state space, finite.
InitGuests ==
    /\ server \in {[musics |-> ms, vocals |-> vs, outside |-> oc] :
                        ms \in TrackLists, vs \in VocalLists,
                        oc \in {ServerOutsideCharacters, NoOutsideCharacters}}
    /\ DOMAIN server.outside = {} => server.vocals = <<>>
    /\ fs = NoMap
    /\ prevSuccess = FALSE
    /\ Fresh

\* a request of the loader is answered, or main() is resumed by the gather
LoaderAnswered ==
    \/ FetchMusics
    \/ FetchVocals
    \/ FetchGameCharacters
    \/ FetchOutsideCharacters
    \/ GatherReturns
    \/ GatherRaises

\* task w is suspended at the await of its cover request or of an audio request
Awaits(w) ==
    /\ w \in DOMAIN tasks
    /\ runState = "running"
    /\ tasks[w].pc \in {"cover", "audio"}

\* the request that task w awaits is answered and the task runs on: the step
\* CoverFetched(w) or AudioFetched(w), the only steps that change the task (a
\* request that raises leaves it as it is)
Resumed(w) == Awaits(w) /\ tasks'[w] # tasks[w]

\* the requests of task w do not fail for ever: weak fairness of
\* CoverFetched(w) \/ AudioFetched(w), which is enabled exactly when Awaits(w)
TaskFair(w) == []<>~Awaits(w) \/ []<><<Resumed(w)>>_vars

\* the steps that Resumed(w) stands for are those of the two actions
ResumedIsAnswered ==
    [][\A w \in 1..MaxTracks :
          Resumed(w) <=> (w \in DOMAIN tasks /\ (CoverFetched(w) \/ AudioFetched(w)))]_vars

\* the event loop resumes main() when a response of the loader or the result
\* of the gather is there
LoaderFair == WF_vars(LoaderAnswered)

\* one run in which no request fails for ever
SpecFair ==
    InitGuests /\ [][Next]_vars /\ LoaderFair /\ \A w \in 1..MaxTracks : TaskFair(w)

InitConsistent == InitGuests /\ Consistent(server.vocals)

\* one run, against datasets in which every character reference names a
\* loaded character, in which the requests of the loader do not fail for
\* ever, while those of any task may
SpecLoaderFair == InitConsistent /\ [][Next]_vars /\ LoaderFair

\* one run against a catalog of one track with one variant, the author
\* fields of the track and the characters of the variant taking every value
InitAuthors ==
    /\ server \in {[musics |-> ms, vocals |-> vs, outside |-> ServerOutsideCharacters] :
                        ms \in AuthorTrackLists, vs \in AuthorVocalLists}
    /\ fs = NoMap
    /\ prevSuccess = FALSE
    /\ Fresh

SpecAuthors == InitAuthors /\ [][Next]_vars


\* ============================================================= claims
\* the events of kind `kind` that task t logged for its variant i
EventsOf(t, kind, i) ==
    {k \in 1..Len(t.events) : t.events[k].ev = kind /\ t.events[k].i = i}

\* task t has logged an event of one of kinds
Did(t, kinds) == \E k \in 1..Len(t.events) : t.events[k].ev \in kinds

\* the path of variant i of task t
PathOfVariant(t, i, gc, oc) ==
    OopPath(t.music, t.vocals[i], CharactersTup(t.vocals[i], gc, oc))

\* the file of a variant that was fetched, written and tagged in both phases
Complete(f) == f.audio # 0 /\ f.tags # {} /\ f.apic # 0

AudioAndTagKinds == {"fetch", "open", "write", "tag1", "tag2"}

\* C1 as stated: in a run that follows a run in which main() returned, no
\* task receives cover bytes or audio, and none writes or tags a file.
C1_NoFetchAtAll ==
    prevSuccess =>
        \A w \in DOMAIN tasks : ~Did(tasks[w], {"cover"} \cup AudioAndTagKinds)

\* C1, amended: in a run that follows a run in which main() returned, no step
\* changes the output directory, no task sends an audio request, receives
\* audio, or writes or tags a file. (The cover of every scheduled track is
\* still fetched.)
C1_Idempotent ==
    [][prevSuccess' =>
          /\ fs' = fs
          /\ \A w \in DOMAIN tasks' :
                /\ tasks'[w].pc # "audio"
                /\ ~Did(tasks'[w], AudioAndTagKinds)]_vars

\* a second run has returned, having fetched a cover and skipped a variant
C1_Witness ==
    /\ prevSuccess
    /\ runState = "success"
    /\ \E w \in DOMAIN tasks : Did(tasks[w], {"cover"}) /\ Did(tasks[w], {"skip"})

\* C2: a variant whose path exists when the task checks it is not fetched,
\* written or tagged; it gets exactly one progress signal, right after the
\* check; and the file is, when the step ends, the file that the check found.
\* A task sends the audio request of a variant only when its path is absent.
C2_SkipOnExists ==
    [][\A w \in DOMAIN tasks' :
          LET t == tasks'[w]
              before == IF w \in DOMAIN tasks THEN Len(tasks[w].events) ELSE 0
              waited == w \in DOMAIN tasks /\ tasks[w].pc = "audio"
                            /\ tasks[w].vi = t.vi
          IN /\ \A k \in 1..Len(t.events) :
                   t.events[k].ev = "skip" =>
                      LET i == t.events[k].i
                          p == PathOfVariant(t, i, game_characters', outside_characters')
                      IN /\ \A kind \in AudioAndTagKinds : EventsOf(t, kind, i) = {}
                         /\ EventsOf(t, "signal", i) = {k + 1}
                         /\ EventsOf(t, "skip", i) = {k}
                         /\ k > before => (Exists(fs', p) /\ fs'[p] = t.events[k].file)
             /\ (t.pc = "audio" /\ ~waited) =>
                   ~Exists(fs', PathOfVariant(t, t.vi, game_characters',
                                              outside_characters'))]_vars

\* a task has skipped a variant whose file an earlier run left, and has gone
\* on to the next variant
C2_Witness ==
    \E w \in DOMAIN tasks :
        /\ tasks[w].vi > 1
        /\ EventsOf(tasks[w], "skip", 1) # {}
        /\ tasks[w].pc = "audio"

\* the catalog that one pass without a failure builds from the datasets
CleanCatalog ==
    [musics |-> server.musics,
     vocal_map |-> AddVocals(NoMap, server.vocals),
     game_characters |-> ServerGameCharacters,
     outside_characters |-> server.outside]

\* C3: when the loader loop ends, the catalog is the one that a single pass
\* without a failure builds, whatever attempts failed before.
C3_CleanCatalog ==
    loaderPc = "done" =>
        [musics |-> musics, vocal_map |-> vocal_map,
         game_characters |-> game_characters,
         outside_characters |-> outside_characters] = CleanCatalog

\* C4: in a run in which no write or tagging step raised, every file that a
\* task finds present and skips is complete: every file that exists was
\* written in full and tagged in both phases, by this run or an earlier one.
C4_SkippedFilesComplete ==
    (\A w \in DOMAIN tasks : tasks[w].error # "OSError") =>
        \A w \in DOMAIN tasks :
            \A k \in 1..Len(tasks[w].events) :
                tasks[w].events[k].ev = "skip" => Complete(tasks[w].events[k].file)

RECURSIVE SumOver(_, _)
\* the sum of f[w] for w in ws
SumOver(f, ws) ==
    IF ws = {} THEN 0
    ELSE LET w == CHOOSE x \in ws : TRUE IN f[w] + SumOver(f, ws \ {w})

\* C5: in every interleaving the variant counter is the number of variants
\* the tasks have finished (completed or skipped) and the track counter the
\* number of tasks that returned; when all N tasks have returned these are
\* the sum of the lengths of their variant lists, and N.
C5_Counters ==
    runState # "loading" =>
        /\ progress.variantDone = SumOver([w \in DOMAIN tasks |-> tasks[w].vi - 1],
                                          DOMAIN tasks)
        /\ progress.trackDone = Cardinality({w \in DOMAIN tasks : tasks[w].pc = "done"})
        /\ runState = "success" =>
              /\ progress.variantDone =
                    SumOver([w \in DOMAIN tasks |-> Len(tasks[w].vocals)], DOMAIN tasks)
              /\ progress.trackDone = Cardinality(DOMAIN tasks)

\* two tasks have returned, each after two variants
C5_Witness ==
    /\ runState = "success"
    /\ Cardinality(DOMAIN tasks) = 2
    /\ \A w \in DOMAIN tasks : Len(tasks[w].vocals) = 2
    /\ progress.variantDone = 4


\* the variants of the mapping that name track id
NumVariants(map, id) ==
    Cardinality({kj \in UNION {{<<k, j>> : j \in 1..Len(map[k])} : k \in DOMAIN map} :
                    map[kj[1]][kj[2]].musicId = id})

\* the loaded tracks that have at least one variant in the mapping
WithVariants == {i \in 1..Len(musics) : NumVariants(vocal_map, musics[i].id) >= 1}

\* C6: once the loader has ended there is exactly one task for every loaded
\* track with at least one variant in the mapping, started on that track and
\* its variants, and no task for a track without variants.
C6_Scheduling ==
    runState # "loading" =>
        /\ DOMAIN tasks = WithVariants
        /\ \A w \in DOMAIN tasks :
              /\ tasks[w].music = musics[w]
              /\ tasks[w].vocals = vocal_map[musics[w].id]

\* two tracks are loaded, one of them without variants, and one task runs
C6_Witness ==
    /\ runState = "running"
    /\ Len(musics) = 2
    /\ Cardinality(DOMAIN tasks) = 1

\* C7: the track total is the number of tracks with at least one variant and
\* the variant total the number of variants of those tracks.
C7_Totals ==
    runState # "loading" =>
        /\ progress.trackTotal = Cardinality(WithVariants)
        /\ progress.variantTotal =
              SumOver([i \in WithVariants |-> NumVariants(vocal_map, musics[i].id)],
                      WithVariants)

\* C8: a task fails only with the KeyError of an unknown character id or the
\* error of a local write; it has then sent no signal for the variant it
\* failed on and no track-completed signal; it stays as it failed (no retry);
\* the run does not end in success; and no task gets past, or does anything
\* for, a variant with an unknown character id.
C8_FatalErrors ==
    [][\A w \in DOMAIN tasks' :
          LET t == tasks'[w] IN
          /\ t.pc = "failed" =>
                /\ t.error \in {"KeyError", "OSError"}
                /\ EventsOf(t, "signal", t.vi) = {}
                /\ ~Did(t, {"complete"})
                /\ runState' # "success"
                /\ (w \in DOMAIN tasks /\ tasks[w].pc = "failed") => t = tasks[w]
          /\ \A i \in 1..Len(t.vocals) :
                ~Resolvable(t.vocals[i], game_characters', outside_characters') =>
                    /\ t.vi <= i
                    /\ \A k \in 1..Len(t.events) : t.events[k].i # i
                    /\ t.vi = i => t.pc \in {"cover", "failed"}
                    /\ (t.vi = i /\ t.pc = "failed") => t.error = "KeyError"]_vars

\* the run has failed, one task on an unknown character id and another on a
\* local write
C8_Witness ==
    /\ runState = "failed"
    /\ \E w \in DOMAIN tasks : tasks[w].error = "KeyError"
    /\ \E w \in DOMAIN tasks : tasks[w].error = "OSError"

\* C9: a step in which a request raises changes no task, file or counter and
\* does not end the run: the task is left awaiting the same request, the
\* loader starts its pass again; and no task ever fails with anything but a
\* KeyError or the error of a local write.
C9_Absorbed ==
    [][/\ failures' = failures + 1 =>
             /\ runState' = runState
             /\ tasks' = tasks
             /\ fs' = fs
             /\ progress' = progress
             /\ runState = "loading" => loaderPc' = "musics"
       /\ \A w \in DOMAIN tasks' :
             tasks'[w].pc = "failed" => tasks'[w].error \in {"KeyError", "OSError"}]_vars

\* requests raised, in the loader or in a task, and the run still returned
\* with a variant downloaded
C9_Witness ==
    /\ failures = MaxFailures
    /\ runState = "success"
    /\ \E w \in DOMAIN tasks : Did(tasks[w], {"tag2"})

\* C10: no two tasks open the same path for writing.
C10_NoConflicts ==
    \A w1, w2 \in DOMAIN tasks :
        w1 # w2 =>
            \A i \in 1..Len(tasks[w1].vocals), j \in 1..Len(tasks[w2].vocals) :
                (EventsOf(tasks[w1], "open", i) # {} /\ EventsOf(tasks[w2], "open", j) # {})
                    => PathOfVariant(tasks[w1], i, game_characters, outside_characters)
                         # PathOfVariant(tasks[w2], j, game_characters, outside_characters)

\* the four catalog collections
Catalog == <<musics, vocal_map, game_characters, outside_characters>>

\* C12: a task exists (its cover request is sent when it is created, its
\* audio requests later) only once the loader loop has ended, and no step
\* taken after the loader loop has ended changes any of the four catalog
\* collections.
C12_CatalogLifecycle ==
    [][/\ DOMAIN tasks' # {} => (loaderPc' = "done" /\ runState' # "loading")
       /\ \A w \in DOMAIN tasks' :
             Did(tasks'[w], {"cover", "fetch"}) => loaderPc = "done"
       /\ loaderPc = "done" => Catalog' = Catalog]_vars

\* after a loader pass that failed, one task has received audio while
\* another still waits for its cover
C12_Witness ==
    /\ failures >= 1
    /\ \E w \in DOMAIN tasks : Did(tasks[w], {"fetch"})
    /\ \E w \in DOMAIN tasks : tasks[w].pc = "cover"

\* C13: the step that ends the loader loop is the fourth request of a pass
\* succeeding (no failure in that step), the three earlier requests of the
\* same pass having succeeded, and it leaves the guest-character collection
\* non-empty; a step in which a request of the loader fails never ends the
\* loop but starts the next pass; and while
\* a pass is under way the collections loaded so far in it are the datasets.
C13_LoaderExit ==
    [][/\ (loaderPc # "done" /\ loaderPc' = "done") =>
             /\ loaderPc = "outside"
             /\ failures' = failures
             /\ DOMAIN outside_characters' # {}
             /\ outside_characters' = server.outside
       /\ (loaderPc # "done" /\ failures' # failures) => loaderPc' = "musics"
       /\ loaderPc' \in {"vocals", "game", "outside", "done"} => musics' = server.musics
       /\ loaderPc' \in {"game", "outside", "done"} =>
             \A i \in 1..Len(server.vocals) :
                 /\ server.vocals[i].musicId \in DOMAIN vocal_map'
                 /\ \E j \in 1..Len(vocal_map'[server.vocals[i].musicId]) :
                       vocal_map'[server.vocals[i].musicId][j] = server.vocals[i]
       /\ loaderPc' \in {"outside", "done"} => game_characters' = ServerGameCharacters]_vars

\* the loader loop has ended after passes that failed
C13_Witness ==
    /\ loaderPc = "done"
    /\ failures >= 2
    /\ runState = "running"

\* C14: a task receives cover bytes exactly once, as the first thing it
\* does (before it looks at any variant, skipped ones included) and never
\* awaits the cover again; the bytes it holds from then on are those of its
\* track's cover and never change; and the second tagging phase of every
\* variant leaves the file with exactly these bytes as its picture.
C14_CoverOnce ==
    [][\A w \in DOMAIN tasks' :
          LET t == tasks'[w]
              old == w \in DOMAIN tasks
              before == IF old THEN Len(tasks[w].events) ELSE 0
          IN /\ Cardinality({k \in 1..Len(t.events) : t.events[k].ev = "cover"})
                   = IF t.pc = "cover" THEN 0 ELSE 1
             /\ t.events # <<>> => t.events[1].ev = "cover"
             /\ t.pc = "cover" => t.cover_png = 0
             /\ t.pc # "cover" => t.cover_png = t.music.assetBundleName
             /\ (old /\ tasks[w].pc # "cover") =>
                   (t.pc # "cover" /\ t.cover_png = tasks[w].cover_png)
             /\ \A k \in (before + 1)..Len(t.events) :
                   t.events[k].ev = "tag2" =>
                      LET p == PathOfVariant(t, t.events[k].i, game_characters',
                                             outside_characters')
                      IN Exists(fs', p) /\ fs'[p].apic = t.cover_png /\ fs'[p].apic # 0]_vars

\* a task has tagged two variants, after a request that failed
C14_Witness ==
    /\ failures >= 1
    /\ \E w \in DOMAIN tasks :
          /\ EventsOf(tasks[w], "tag2", 1) # {}
          /\ EventsOf(tasks[w], "tag2", 2) # {}
          /\ tasks[w].cover_png # 0

\* the kinds of the events that task t logged for its variant i, in order
KindsOf(t, i) ==
    LET own == SelectSeq(t.events, LAMBDA e : e.i = i)
    IN [k \in 1..Len(own) |-> own[k].ev]

\* s is the beginning of q
IsPrefix(s, q) == Len(s) <= Len(q) /\ s = SubSeq(q, 1, Len(s))

DownloadedKinds == <<"fetch", "open", "write", "tag1", "tag2", "signal">>
SkippedKinds == <<"skip", "signal">>

\* C15: what a task has done, in order, is: the cover, then its variants
\* one after the other in list order, each one either skipped and signalled
\* or audio received, file opened, written, tagged (phase 1), tagged (phase
\* 2) and signalled, in that order with no step left out or repeated; a
\* variant is begun only when the one before it has signalled; and the
\* track-completed signal is the last thing the task does, after every one
\* of its variants has signalled.
C15_Ordering ==
    \A w \in DOMAIN tasks :
        LET t == tasks[w]
            n == Len(t.events)
        IN /\ \A k, l \in 1..n :
                 (k < l /\ t.events[k].i >= 1 /\ t.events[l].i >= 1)
                    => t.events[k].i <= t.events[l].i
           /\ \A i \in 1..Len(t.vocals) :
                 /\ \/ IsPrefix(KindsOf(t, i), DownloadedKinds)
                    \/ IsPrefix(KindsOf(t, i), SkippedKinds)
                 /\ (i > 1 /\ KindsOf(t, i) # <<>>) => EventsOf(t, "signal", i - 1) # {}
                 /\ EventsOf(t, "signal", i) # {} <=> i < t.vi
           /\ \A k \in 1..n :
                 t.events[k].ev = "complete" =>
                    /\ k = n
                    /\ \A i \in 1..Len(t.vocals) :
                          Cardinality(EventsOf(t, "signal", i)) = 1
           /\ t.pc = "done" <=> Did(t, {"complete"})

\* a task has returned after a variant it downloaded and a variant it skipped
C15_Witness ==
    \E w \in DOMAIN tasks :
        /\ tasks[w].pc = "done"
        /\ Did(tasks[w], {"tag2"})
        /\ Did(tasks[w], {"skip"})

\* the text frames with key `key` in the set of frames `tags`
FramesOf(tags, key) == {pair \in tags : pair[1] = key}

AuthorKeys == {"lyricist", "composer", "arranger"}

\* the value of the author field `key` of a track
AuthorField(music, key) ==
    CASE key = "lyricist" -> music.lyricist
      [] key = "composer" -> music.composer
      [] OTHER -> music.arranger

\* C17: in every file whose text tags were saved, each of the lyricist,
\* composer and arranger tags is present if and only if the track's value of
\* that field is neither "-" nor the empty string, and no such tag holds an
\* empty string.
C17_AuthorTagOmission ==
    \A w \in DOMAIN tasks :
        \A i \in 1..Len(tasks[w].vocals) :
            EventsOf(tasks[w], "tag1", i) # {} =>
                LET f == fs[PathOfVariant(tasks[w], i, game_characters, outside_characters)]
                IN \A key \in AuthorKeys :
                      /\ FramesOf(f.tags, key) # {}
                            <=> AuthorField(tasks[w].music, key) \notin {Dash, Empty}
                      /\ \A pair \in FramesOf(f.tags, key) :
                            \A k \in 1..Len(pair[2]) : pair[2][k] # Empty

\* the names a character reference stands for in the character datasets
NameOfRef(ref) ==
    IF ref.characterType = "game_character"
    THEN ServerGameCharacters[ref.characterId].firstName
            \o ServerGameCharacters[ref.characterId].givenName
    ELSE server.outside[ref.characterId].name

\* lyricist, composer, arranger: each kept when it is neither empty nor "-"
\* and differs from the fields before it
AuthorsExpected(music) ==
    LET kept(x) == x # Empty /\ x # Dash
        l == music.lyricist
        c == music.composer
        a == music.arranger
    IN (IF kept(l) THEN <<l>> ELSE <<>>)
         \o (IF kept(c) /\ c # l THEN <<c>> ELSE <<>>)
         \o (IF kept(a) /\ a # l /\ a # c THEN <<a>> ELSE <<>>)

\* C18: in every file whose text tags were saved, the artist tag is the
\* names of the variant's characters in reference order followed by the
\* author list (lyricist, composer, arranger without empty and "-" values
\* and without repetitions, first occurrences kept in order), and the
\* performer tag is the names of the characters alone.
C18_ArtistPerformer ==
    \A w \in DOMAIN tasks :
        \A i \in 1..Len(tasks[w].vocals) :
            EventsOf(tasks[w], "tag1", i) # {} =>
                LET t == tasks[w]
                    f == fs[PathOfVariant(t, i, game_characters, outside_characters)]
                    names == [k \in 1..Len(t.vocals[i].characters) |->
                                NameOfRef(t.vocals[i].characters[k])]
                IN /\ FramesOf(f.tags, "artist")
                        = {<<"artist", names \o AuthorsExpected(t.music)>>}
                   /\ FramesOf(f.tags, "performer") = {<<"performer", names>>}

\* the tags of a variant with two characters were saved, for a track whose
\* arranger repeats its lyricist and whose composer is another name
C18_Witness ==
    \E w \in DOMAIN tasks :
        /\ EventsOf(tasks[w], "tag2", 1) # {}
        /\ Len(tasks[w].vocals[1].characters) = 2
        /\ tasks[w].music.lyricist = <<"Y">>
        /\ tasks[w].music.composer = <<"X">>
        /\ tasks[w].music.arranger = <<"Y">>

\* C19: when main() has returned (every task returned, none failed), the
\* tracks-completed counter equals the track total and the
\* variants-completed counter equals the variant total.
C19_ReachesTotals ==
    runState = "success" =>
        /\ progress.trackDone = progress.trackTotal
        /\ progress.variantDone = progress.variantTotal

\* main() has returned: the loader loop has ended and every task has returned
Terminated ==
    /\ runState = "success"
    /\ loaderPc = "done"
    /\ \A w \in DOMAIN tasks : tasks[w].pc = "done"

\* a task has failed on an unknown character id or a local write
FatalError == \E w \in DOMAIN tasks : tasks[w].pc = "failed"

\* C11 as stated: when no request fails forever, the run comes to a fatal
\* error or main() returns, the loader loop ended and every task returned.
C11_Terminates == <>(Terminated \/ FatalError)

\* C11, amended: against a guest-character dataset that lists at least one
\* character, when no request fails forever, the run comes to a fatal error
\* or main() returns, the loader loop ended and every task returned.
C11_TerminatesWithGuests ==
    (DOMAIN server.outside # {}) => <>(Terminated \/ FatalError)

\* main() has returned after failed requests, two tasks having downloaded
\* their variants
C11_Witness ==
    /\ Terminated
    /\ failures >= 1
    /\ Cardinality(DOMAIN tasks) = 2
    /\ \A w \in DOMAIN tasks : Did(tasks[w], {"tag2"})

\* task w has returned or failed, or the run has ended on the failure of
\* another task
Finished(w) ==
    \/ runState = "failed"
    \/ w \in DOMAIN tasks /\ tasks[w].pc \in {"done", "failed"}

\* C16: a task whose own requests do not fail for ever returns (or ends on a
\* fatal error, its own or another task's), whatever the other tasks do: any
\* of them may stay for ever at a request that keeps failing.
C16_Independence ==
    \A w \in 1..MaxTracks :
        TaskFair(w) => [](w \in DOMAIN tasks => <>Finished(w))

\* a task has returned after downloading a variant while another task is
\* still at its cover request, which has failed
C16_Witness ==
    \E w, u \in DOMAIN tasks :
        /\ tasks[w].pc = "done"
        /\ Did(tasks[w], {"tag2"})
        /\ tasks[u].pc = "cover"
        /\ failures >= 2
        /\ runState = "running"

====
